---- MODULE Spec2Model ----
(***************************************************************************)
(* Model of the paralympics REST API (src/paralympics/routes.py): the      *)
(* region and event tables behind db.session, the marshmallow schema load  *)
(* / dump calls, and one action per route handler.                         *)
(***************************************************************************)
EXTENDS Integers, FiniteSets, Sequences, TLC

VARIABLES
    regions,      \* rows of the region table: [NOC, region, notes]
    events,       \* rows of the event table: [id, NOC, name]
    fk_enforced,  \* whether the store rejects a commit that breaks event.NOC -> region.NOC
    last          \* the request just handled, with the handler's locals and its response

vars == <<regions, events, fk_enforced, last>>

----------------------------------------------------------------------------
(* Value domains                                                           *)

MaxEvents == 1

NOCs == {"GBR", "FRA"}
RegionNames == {"Great Britain", "France"}
NotesVals == {"n1"}
EventNames == {"e1"}

\* The store's foreign-key enforcement is fixed by the database set-up, which
\* the routes do not decide: both settings are considered.
StoreConfigs == BOOLEAN

NULL == "<null>"
Absent == "<absent>"
Bad == "<not-a-string>"
NoRow == [none |-> TRUE]

RegionFields == {"NOC", "region", "notes"}
RegionRequired == {"NOC", "region"}
EventColumns == {"id", "NOC", "name"}
EventRequired == {"NOC", "name"}

RegionPayloads ==
    [NOC : NOCs \cup {Absent},
     region : RegionNames \cup {Absent, Bad},
     notes : NotesVals \cup {Absent}]

EventPayloads ==
    [NOC : NOCs \cup {Absent},
     name : EventNames \cup {Absent, Bad}]

----------------------------------------------------------------------------
(* marshmallow: Schema.load / Schema.dump                                  *)

\* The fields of the payload that fail validation: a value of the wrong type,
\* or (unless partial=True) a required field that is missing.
load_errors(json, required, partial) ==
    {f \in DOMAIN json :
        \/ json[f] = Bad
        \/ (~partial /\ f \in required /\ json[f] = Absent)}

\* error.messages: field name -> message
error_messages(json, required, partial) ==
    [f \in load_errors(json, required, partial) |->
        IF json[f] = Bad THEN "Not a valid string."
                         ELSE "Missing data for required field."]

\* (mutant) setattr that also clears the attributes the data does not carry
setattr_all_clearing(instance, json) ==
    [f \in DOMAIN instance |->
        IF f \in DOMAIN json /\ json[f] # Absent THEN json[f] ELSE NULL]

\* make_instance on an existing instance: setattr for every key of the data
setattr_all(instance, json) ==
    [f \in DOMAIN instance |->
        IF f \in DOMAIN json /\ json[f] # Absent THEN json[f] ELSE instance[f]]

\* (mutant) Region(**data) that loses the notes column
new_region_without_notes(json) ==
    [NOC |-> IF json.NOC = Absent THEN NULL ELSE json.NOC,
     region |-> IF json.region = Absent THEN NULL ELSE json.region,
     notes |-> NULL]

\* make_instance without an instance: Model(**data), other columns NULL
new_region(json) == setattr_all([NOC |-> NULL, region |-> NULL, notes |-> NULL], json)
new_event(json) == setattr_all([id |-> 0, NOC |-> NULL, name |-> NULL], json)

\* get_instance: look the row up by the primary key carried in the data
get_instance(regs, json) ==
    IF json.NOC # Absent /\ \E r \in regs : r.NOC = json.NOC
    THEN CHOOSE r \in regs : r.NOC = json.NOC
    ELSE NoRow

\* load(json, instance=..., partial=...) of region_schema once validation passed
region_load(regs, json, instance) ==
    LET target == IF instance # NoRow THEN instance ELSE get_instance(regs, json)
    IN  [old |-> target,
         new |-> IF target # NoRow THEN setattr_all(target, json) ELSE new_region(json)]

dump(row) == row

----------------------------------------------------------------------------
(* db.session: select / add / delete / commit                              *)

\* (mutant) select without the filter_by(NOC=code)
select_region_unfiltered(regs, code) == regs

select_region(regs, code) == {r \in regs : r.NOC = code}
select_event(evs, id) == {e \in evs : e.id = id}

scalar_one_or_none(rows) == IF rows = {} THEN NoRow ELSE CHOOSE r \in rows : TRUE

\* commit of an INSERT (old = NoRow) or UPDATE (old -> new) of one region row
region_commit_ok(regs, evs, fk, old, new) ==
    /\ new.NOC # NULL
    /\ new.region # NULL
    /\ \A r \in regs \ {old} : r.NOC # new.NOC
    /\ (fk /\ old # NoRow /\ old.NOC # new.NOC) => (\A e \in evs : e.NOC # old.NOC)

region_commit(regs, old, new) == (regs \ {old}) \cup {new}

next_id(evs) == IF evs = {} THEN 1
                ELSE (CHOOSE i \in {e.id : e \in evs} : \A e \in evs : e.id <= i) + 1

event_commit_ok(regs, fk, new) ==
    /\ new.NOC # NULL
    /\ new.name # NULL
    /\ fk => (\E r \in regs : r.NOC = new.NOC)

\* filter_by(attr=...) needs attr to be a mapped property of the entity
has_property(columns, attr) == attr \in columns

region_delete_ok(evs, fk, row) ==
    fk => (\A e \in evs : e.NOC # row.NOC)

----------------------------------------------------------------------------
Init ==
    /\ regions = {}
    /\ events = {}
    /\ fk_enforced \in StoreConfigs
    /\ last = [op |-> "init", status |-> 0]

\* GET /regions/<code>
get_region_response(regs, code, dbfail) ==
    IF dbfail THEN [status |-> 500, body |-> [error |-> "Internal Server Error"]]
    ELSE IF Cardinality(select_region(regs, code)) = 1
         THEN [status |-> 200,
               body |-> dump(CHOOSE r \in select_region(regs, code) : TRUE)]
         ELSE [status |-> 404, body |-> [error |-> "No row was found when one was required"]]

get_region(code, dbfail) ==
    LET resp == get_region_response(regions, code, dbfail)
    IN  /\ last' = [op |-> "get_region", code |-> code, dbfail |-> dbfail,
                    status |-> resp.status, body |-> resp.body]
        /\ UNCHANGED <<regions, events, fk_enforced>>

\* POST /regions
add_region(json) ==
    LET errs == error_messages(json, RegionRequired, FALSE)
        ld == region_load(regions, json, NoRow)
    IN  /\ UNCHANGED <<events, fk_enforced>>
        /\ IF DOMAIN errs # {}
           THEN /\ last' = [op |-> "add_region", json |-> json, existing |-> NoRow,
                            status |-> 400, body |-> errs]
                /\ UNCHANGED regions
           ELSE IF region_commit_ok(regions, events, fk_enforced, ld.old, ld.new)
           THEN /\ regions' = region_commit(regions, ld.old, ld.new)
                /\ last' = [op |-> "add_region", json |-> json, existing |-> ld.old,
                            status |-> 201,
                            body |-> [message |-> "Region added with NOC=",
                                      noc |-> ld.new.NOC]]
           ELSE /\ last' = [op |-> "add_region", json |-> json, existing |-> ld.old,
                            status |-> 500,
                            body |-> [error |-> "Internal Server Error"]]
                /\ UNCHANGED regions

\* (mutant) GET /regions without the except SQLAlchemyError clause
get_regions_uncaught(dbfail) ==
    /\ last' = IF dbfail
               THEN [op |-> "get_regions", dbfail |-> dbfail, status |-> 500,
                     body |-> [error |-> "Internal Server Error"]]
               ELSE [op |-> "get_regions", dbfail |-> dbfail, status |-> 200,
                     body |-> [rows |-> {dump(r) : r \in regions}]]
    /\ UNCHANGED <<regions, events, fk_enforced>>

\* GET /regions
get_regions(dbfail) ==
    /\ last' = IF dbfail
               THEN [op |-> "get_regions", dbfail |-> dbfail, status |-> 404,
                     body |-> [error |-> "Region not found."]]
               ELSE [op |-> "get_regions", dbfail |-> dbfail, status |-> 200,
                     body |-> [rows |-> {dump(r) : r \in regions}]]
    /\ UNCHANGED <<regions, events, fk_enforced>>

\* GET /events
get_events(dbfail) ==
    /\ last' = IF dbfail
               THEN [op |-> "get_events", dbfail |-> dbfail, status |-> 500,
                     body |-> [error |-> "Internal Server Error"]]
               ELSE [op |-> "get_events", dbfail |-> dbfail, status |-> 200,
                     body |-> [rows |-> {dump(e) : e \in events}]]
    /\ UNCHANGED <<regions, events, fk_enforced>>

\* GET /events/<event_id>
get_event_response(evs, id, dbfail) ==
    IF dbfail THEN [status |-> 500, body |-> [error |-> "Internal Server Error"]]
    ELSE IF Cardinality(select_event(evs, id)) = 1
         THEN [status |-> 200,
               body |-> dump(CHOOSE e \in select_event(evs, id) : TRUE)]
         ELSE [status |-> 404, body |-> [error |-> "No row was found when one was required"]]

get_event(id, dbfail) ==
    LET resp == get_event_response(events, id, dbfail)
    IN  /\ last' = [op |-> "get_event", id |-> id, dbfail |-> dbfail,
                    status |-> resp.status, body |-> resp.body]
        /\ UNCHANGED <<regions, events, fk_enforced>>

\* POST /events
add_event(json) ==
    LET errs == error_messages(json, EventRequired, FALSE)
        event == [new_event(json) EXCEPT !.id = next_id(events)]
    IN  /\ UNCHANGED <<regions, fk_enforced>>
        /\ IF DOMAIN errs # {}
           THEN /\ last' = [op |-> "add_event", json |-> json,
                            status |-> 400, body |-> errs]
                /\ UNCHANGED events
           ELSE IF event_commit_ok(regions, fk_enforced, event)
           THEN /\ event.id <= MaxEvents
                /\ events' = events \cup {event}
                /\ last' = [op |-> "add_event", json |-> json, status |-> 201,
                            body |-> [message |-> "Event added with id=",
                                      id |-> event.id]]
           ELSE /\ last' = [op |-> "add_event", json |-> json, status |-> 500,
                            body |-> [error |-> "Internal Server Error"]]
                /\ UNCHANGED events

\* DELETE /events/<int:event_id>
delete_event(id) ==
    LET rows == select_event(events, id)
    IN  /\ UNCHANGED <<regions, fk_enforced>>
        /\ IF Cardinality(rows) # 1
           THEN /\ last' = [op |-> "delete_event", id |-> id, status |-> 404,
                            body |-> [error |-> "No row was found when one was required"]]
                /\ UNCHANGED events
           ELSE /\ events' = events \ rows
                /\ last' = [op |-> "delete_event", id |-> id, status |-> 200,
                            body |-> [message |-> "Event deleted", id |-> id]]

\* DELETE /regions/<noc_code>
delete_region(noc_code) ==
    LET rows == select_region(regions, noc_code)
    IN  /\ UNCHANGED <<events, fk_enforced>>
        /\ IF Cardinality(rows) # 1
           THEN /\ last' = [op |-> "delete_region", code |-> noc_code, status |-> 404,
                            body |-> [error |-> "No row was found when one was required"]]
                /\ UNCHANGED regions
           ELSE IF region_delete_ok(events, fk_enforced, CHOOSE r \in rows : TRUE)
           THEN /\ regions' = regions \ rows
                /\ last' = [op |-> "delete_region", code |-> noc_code, status |-> 200,
                            body |-> [message |-> "Region deleted", noc |-> noc_code]]
           ELSE /\ last' = [op |-> "delete_region", code |-> noc_code, status |-> 500,
                            body |-> [error |-> "Internal Server Error"]]
                /\ UNCHANGED regions

\* PATCH /events/<event_id>
event_update(id, json) ==
    LET existing_event == scalar_one_or_none(select_event(events, id))
        errs == error_messages(json, EventRequired, TRUE)
        event_updated == IF existing_event # NoRow
                         THEN setattr_all(existing_event, json)
                         ELSE [new_event(json) EXCEPT !.id = next_id(events)]
        req == [op |-> "event_update", id |-> id, json |-> json,
                existing |-> existing_event]
    IN  /\ UNCHANGED <<regions, fk_enforced>>
        /\ IF ~has_property(EventColumns, "event_id")
           THEN /\ last' = [op |-> "event_update", id |-> id, json |-> json,
                            existing |-> NoRow, status |-> 500,
                            body |-> [error |-> "Internal Server Error"]]
                /\ UNCHANGED events
           ELSE IF DOMAIN errs # {}
           THEN /\ last' = [req EXCEPT !.status = 400, !.body = errs]
                /\ UNCHANGED events
           ELSE IF event_commit_ok(regions, fk_enforced, event_updated)
           THEN /\ event_updated.id <= MaxEvents
                /\ events' = (events \ {existing_event}) \cup {event_updated}
                /\ last' = [req EXCEPT !.status = 200,
                                       !.body = get_event_response(events', id, FALSE).body]
           ELSE /\ last' = [req EXCEPT !.status = 500,
                                       !.body = [error |-> "Internal Server Error"]]
                /\ UNCHANGED events

\* PUT, PATCH /regions/<noc_code>
region_update(method, noc_code, json) ==
    LET existing_region == scalar_one_or_none(select_region(regions, noc_code))
        errs == error_messages(json, RegionRequired, method = "PATCH")
        r == region_load(regions, json, existing_region)
        req == [op |-> "region_update", method |-> method, code |-> noc_code,
                json |-> json, existing |-> existing_region,
                status |-> 0, body |-> NoRow]
    IN  /\ UNCHANGED <<events, fk_enforced>>
        /\ IF DOMAIN errs # {}
           THEN /\ last' = [req EXCEPT !.status = 400, !.body = errs]
                /\ UNCHANGED regions
           ELSE IF method = "PUT" /\ existing_region = NoRow
           THEN /\ last' = [req EXCEPT !.status = 200,
                               !.body = [message |-> "Region added with NOC=",
                                         noc |-> noc_code]]
                /\ UNCHANGED regions
           ELSE IF region_commit_ok(regions, events, fk_enforced, r.old, r.new)
           THEN /\ regions' = region_commit(regions, r.old, r.new)
                /\ last' = [req EXCEPT !.status = 200,
                               !.body = [message |-> "Region updated",
                                         noc |-> noc_code]]
           ELSE /\ last' = [req EXCEPT !.status = 500,
                               !.body = [error |-> "Internal Server Error"]]
                /\ UNCHANGED regions

EventIds == 1 .. MaxEvents

Next ==
    \/ get_regions(FALSE)
    \/ \E c \in NOCs : get_region(c, FALSE)
    \/ get_events(FALSE)
    \/ \E i \in EventIds : get_event(i, FALSE)
    \/ \E j \in EventPayloads : add_event(j)
    \/ \E j \in RegionPayloads : add_region(j)
    \/ \E i \in EventIds : delete_event(i)
    \/ \E c \in NOCs : delete_region(c)
    \/ \E i \in EventIds, j \in EventPayloads : event_update(i, j)
    \/ \E m \in {"PUT", "PATCH"}, c \in NOCs, j \in RegionPayloads : region_update(m, c, j)

Spec == Init /\ [][Next]_vars

\* The same service with a storage failure (SQLAlchemyError raised by
\* db.session.execute) possible during any read request.
NextFail ==
    \/ Next
    \/ get_regions(TRUE)
    \/ \E c \in NOCs : get_region(c, TRUE)
    \/ get_events(TRUE)
    \/ \E i \in EventIds : get_event(i, TRUE)

SpecFail == Init /\ [][NextFail]_vars
----------------------------------------------------------------------------
(* Properties.  `last' is the request just answered; in a step, the        *)
(* unprimed tables are the store before that request and the primed ones   *)
(* the store after it.                                                     *)

\* What a request body says, read field by field
WellTyped(json) == \A f \in DOMAIN json : json[f] # Bad
ValidRegion(json) == WellTyped(json) /\ json.NOC # Absent /\ json.region # Absent
Offending(json, required) ==
    {f \in DOMAIN json : json[f] = Bad \/ (f \in required /\ json[f] = Absent)}

\* The region a full payload describes, and a region with a partial payload applied
FromPayload(json) ==
    [NOC |-> json.NOC, region |-> json.region,
     notes |-> IF json.notes = Absent THEN NULL ELSE json.notes]
Patched(R, json) ==
    [NOC |-> IF json.NOC = Absent THEN R.NOC ELSE json.NOC,
     region |-> IF json.region = Absent THEN R.region ELSE json.region,
     notes |-> IF json.notes = Absent THEN R.notes ELSE json.notes]

Found(row) == [status |-> 200, body |-> row]
IsPut == last.op = "region_update" /\ last.method = "PUT"
IsPatch == last.op = "region_update" /\ last.method = "PATCH"

\* C1: a successful PUT /regions/{code} on a code with no region, with a valid
\* payload (here one whose NOC is the path code), stores the region built from
\* the payload, and GET /regions/{code} then returns the submitted data.
C1_PutCreatesAbsentRegion ==
    (IsPut /\ last.existing = NoRow /\ ValidRegion(last.json)
        /\ last.json.NOC = last.code /\ last.status \in {200, 201})
    => /\ FromPayload(last.json) \in regions
       /\ get_region_response(regions, last.code, FALSE) = Found(FromPayload(last.json))

\* C2: after a successful PUT /regions/{code} on an existing region, every
\* field the payload omitted is NULL in the stored region, not retained.
C2_PutReplacesOmittedFields ==
    (IsPut /\ last.existing # NoRow /\ last.status = 200)
    => \A r \in regions : r.NOC = last.json.NOC =>
          \A f \in RegionFields : last.json[f] = Absent => r[f] = NULL

\* C3 (as stated): a successful PATCH /regions/{code} on an existing region R
\* leaves GET /regions/{code} returning R with the supplied fields set, and
\* every other region and every event unchanged.
C3_PatchThenGetByCode ==
    [][(IsPatch' /\ last'.existing # NoRow /\ last'.status = 200)
       => /\ get_region_response(regions', last'.code, FALSE)
                = Found(Patched(last'.existing, last'.json))
          /\ regions' \ {Patched(last'.existing, last'.json)} = regions \ {last'.existing}
          /\ events' = events]_vars

\* C3 (amended): a successful PATCH /regions/{code} on an existing region R
\* replaces the row R by R with the supplied fields set and leaves every other
\* region and every event unchanged; GET /regions/{code} returns the new row
\* when the payload carries no other NOC, and otherwise the row is re-keyed:
\* GET /regions/{code} is 404 and GET on the payload's NOC returns the row.
C3_PatchChangesSuppliedFields ==
    [][(IsPatch' /\ last'.existing # NoRow /\ last'.status = 200)
       => LET R == last'.existing
              j == last'.json
          IN  /\ R \in regions
              /\ regions' = (regions \ {R}) \cup {Patched(R, j)}
              /\ events' = events
              /\ j.NOC \in {Absent, last'.code}
                    => get_region_response(regions', last'.code, FALSE)
                          = Found(Patched(R, j))
              /\ j.NOC \notin {Absent, last'.code}
                    => /\ get_region_response(regions', last'.code, FALSE).status = 404
                       /\ get_region_response(regions', j.NOC, FALSE)
                             = Found(Patched(R, j))]_vars

C3_Witness ==
    /\ IsPatch /\ last.existing # NoRow /\ last.status = 200
    /\ last.json.region \notin {Absent, last.existing.region}
    /\ last.json.notes = Absent /\ last.existing.notes # NULL
    /\ Cardinality(regions) = 2 /\ events # {}

\* C4: PATCH on a key with no row returns 404 and leaves the store unchanged.
C4_PatchAbsentIsNotFound ==
    [][(\/ IsPatch' /\ (\A r \in regions : r.NOC # last'.code)
        \/ last'.op = "event_update" /\ (\A e \in events : e.id # last'.id))
       => /\ last'.status = 404
          /\ regions' = regions
          /\ events' = events]_vars

\* C5: POST /regions with a valid payload whose NOC is not in the store
\* returns 201, and GET /regions/{NOC} then returns 200 with the payload's
\* fields, the omitted notes defaulted to NULL.
C5_PostThenGet ==
    [][(last'.op = "add_region" /\ ValidRegion(last'.json)
            /\ (\A r \in regions : r.NOC # last'.json.NOC))
       => /\ last'.status = 201
          /\ get_region_response(regions', last'.json.NOC, FALSE)
                = Found(FromPayload(last'.json))]_vars

C5_Witness ==
    /\ last.op = "add_region" /\ last.existing = NoRow /\ last.status = 201
    /\ last.json.notes = Absent
    /\ Cardinality(regions) = 2

\* C6: GET and DELETE on a key with no row return 404 and leave the store
\* unchanged; a successful DELETE removes exactly the row with that key.
C6_AbsentKeyIsNotFound ==
    [][/\ (last'.op \in {"get_region", "delete_region"}
              /\ (\A r \in regions : r.NOC # last'.code))
          => (last'.status = 404 /\ regions' = regions /\ events' = events)
       /\ (last'.op \in {"get_event", "delete_event"}
              /\ (\A e \in events : e.id # last'.id))
          => (last'.status = 404 /\ regions' = regions /\ events' = events)
       /\ (last'.op = "delete_region" /\ last'.status = 200)
          => /\ \E r \in regions : r.NOC = last'.code
             /\ regions' = {r \in regions : r.NOC # last'.code}
             /\ events' = events
       /\ (last'.op = "delete_event" /\ last'.status = 200)
          => /\ \E e \in events : e.id = last'.id
             /\ events' = {e \in events : e.id # last'.id}
             /\ regions' = regions]_vars

C6_Witness ==
    /\ last.op = "delete_region" /\ last.status = 404
    /\ regions # {} /\ events # {}

\* C7: a mutating request whose body fails schema validation returns 400,
\* names every offending field in the error body and leaves the store as it was.
C7_InvalidBodyIs400 ==
    [][(\/ last'.op = "add_region" /\ Offending(last'.json, RegionRequired) # {}
        \/ last'.op = "add_event" /\ Offending(last'.json, EventRequired) # {}
        \/ IsPut' /\ Offending(last'.json, RegionRequired) # {}
        \/ IsPatch' /\ Offending(last'.json, {}) # {}
        \/ last'.op = "event_update" /\ Offending(last'.json, {}) # {})
       => /\ last'.status = 400
          /\ \A f \in DOMAIN last'.json : last'.json[f] = Bad => f \in DOMAIN last'.body
          /\ regions' = regions
          /\ events' = events]_vars

\* C8: every stored event references a region that is present in the store.
C8_ReferentialIntegrity ==
    \A e \in events : \E r \in regions : r.NOC = e.NOC

\* C9: no two stored regions share an NOC, and no POST, PUT or PATCH on
\* regions makes the NOC of a region referenced by an event disappear.
C9_NocUniqueAndImmutable ==
    [][/\ \A r1, r2 \in regions' : r1.NOC = r2.NOC => r1 = r2
       /\ last'.op \in {"add_region", "region_update"}
          => \A r \in regions :
                (\E e \in events : e.NOC = r.NOC)
                   => (\E r2 \in regions' : r2.NOC = r.NOC)]_vars

IsRead == last.op \in {"get_regions", "get_region", "get_events", "get_event"}

\* C10 (as stated): a storage failure during any read request is answered
\* with 404, never with a 500-class response.
C10_ReadFailureIs404 ==
    (IsRead /\ last.dbfail) => (last.status = 404 /\ last.status < 500)

\* C10 (amended): a storage failure during GET /regions is answered with 404;
\* during GET /regions/{code}, GET /events and GET /events/{id} it is not
\* caught and is answered with 500.
C10_OnlyListRegionsMasksFailure ==
    /\ (last.op = "get_regions" /\ last.dbfail) => last.status = 404
    /\ (IsRead /\ last.op # "get_regions" /\ last.dbfail) => last.status = 500

C10_Witness ==
    last.op = "get_regions" /\ last.dbfail /\ last.status = 404 /\ regions # {}
====
